---- MODULE Spec2Model ----
(***************************************************************************)
(* Model of the constraint and metadata attachment DSL of goa:             *)
(*   dsl/validation.go : Enum, Format, Pattern, Minimum, Maximum,          *)
(*                       MinLength, MaxLength, Required                    *)
(*   dsl (Meta)        : Meta                                              *)
(* Every DSL function reads eval.Current(), validates its argument against *)
(* the target and mutates the target's Validation or Meta in place; errors *)
(* are appended to the evaluation context and evaluation goes on.          *)
(***************************************************************************)
EXTENDS Integers, Sequences, FiniteSets, TLC

----------------------------------------------------------------------------
(* Bounds of the model *)

\* number of DSL calls evaluated in the declaration block of the current node
MaxCalls == 3

----------------------------------------------------------------------------
(* The declaration tree: one node of every variant eval.Current() can      *)
(* return.  "attr" is a plain *expr.AttributeExpr; "composite" is an       *)
(* expr.CompositeExpr whose Attribute() is "compAttr"; "resultType" is a   *)
(* *expr.ResultTypeExpr whose AttributeExpr is "rtAttr"; "other" is any    *)
(* expression none of the functions supports (or no context at all).       *)

Targets == {"attr", "composite", "resultType", "method", "service", "api", "other"}

\* the dynamic type of each node, as the type switches see it
Variant(n) ==
  CASE n = "attr"       -> "AttributeExpr"
    [] n = "composite"  -> "CompositeExpr"
    [] n = "resultType" -> "ResultTypeExpr"
    [] n = "method"     -> "MethodExpr"
    [] n = "service"    -> "ServiceExpr"
    [] n = "api"        -> "APIExpr"
    [] OTHER            -> "Unsupported"

\* attributes that own a Validation (Constraint Record)
Attrs == {"attr", "rtAttr"}

\* holders of a Meta (Metadata Record)
MetaOwners == {"attr", "compAttr", "resultType", "method", "service", "api"}

\* a.Type == nil
NilType == "nil"

\* expr.Kind values
Kinds == {"BooleanKind", "IntKind", "Int32Kind", "Int64Kind", "UIntKind",
          "UInt32Kind", "UInt64Kind", "Float32Kind", "Float64Kind",
          "StringKind", "BytesKind", "ArrayKind", "ObjectKind", "MapKind"}

\* types the plain attribute is declared with
AttrTypes == {NilType, "StringKind", "IntKind", "ArrayKind", "ObjectKind", "BooleanKind"}

\* types of the attribute inside the result type
ResultAttrTypes == {NilType, "ObjectKind", "StringKind"}

\* the designs evaluated with node n current: the type of the attribute the
\* block of n configures varies, the other attribute is an object
Designs(n) ==
  { d \in [Attrs -> AttrTypes] :
      /\ d["rtAttr"] \in ResultAttrTypes
      /\ n # "attr" => d["attr"] = "ObjectKind"
      /\ n # "resultType" => d["rtAttr"] = "ObjectKind" }

\* a.Type.Name()
TypeName(k) ==
  CASE k = "BooleanKind" -> "boolean"
    [] k = "IntKind"     -> "int"
    [] k = "Int32Kind"   -> "int32"
    [] k = "Int64Kind"   -> "int64"
    [] k = "UIntKind"    -> "uint"
    [] k = "UInt32Kind"  -> "uint32"
    [] k = "UInt64Kind"  -> "uint64"
    [] k = "Float32Kind" -> "float32"
    [] k = "Float64Kind" -> "float64"
    [] k = "StringKind"  -> "string"
    [] k = "BytesKind"   -> "bytes"
    [] k = "ArrayKind"   -> "array"
    [] k = "ObjectKind"  -> "object"
    [] k = "MapKind"     -> "map"
    [] OTHER             -> "nil"

----------------------------------------------------------------------------
(* Go values handed to Enum: a dynamic type t and a content v.             *)

IntVal(n) == [t |-> "int", v |-> n]
StringVal == [t |-> "string", v |-> 2]
ArrayVal == [t |-> "ArrayVal", v |-> 4]
MapVal == [t |-> "MapVal", v |-> 5]

\* argument lists of Enum, among them  Enum()  Enum(1, "two", 3)
\* Enum(ArrayVal{...})  Enum(MapVal{...}, 1)
EnumInputs ==
  { <<>>, <<IntVal(1)>>, <<StringVal>>, <<IntVal(1), IntVal(3)>>,
    <<IntVal(1), StringVal, IntVal(3)>>, <<ArrayVal>>, <<MapVal, IntVal(1)>> }

NoVal == [t |-> "none", v |-> 0]

\* expr.ArrayVal.ToSlice: the elements as a plain []interface{}
ToSlice(x) == [t |-> "slice", v |-> x.v]

\* expr.MapVal.ToMap: the entries as a plain map[interface{}]interface{}
ToMap(x) == [t |-> "map", v |-> x.v]

\* a.Type.IsCompatible(v): the value is representable by the type's kind
IsCompatible(k, x) ==
  CASE x.t = "int"      -> k \in {"IntKind", "Int32Kind", "Int64Kind", "UIntKind",
                                  "UInt32Kind", "UInt64Kind", "Float32Kind", "Float64Kind"}
    [] x.t = "string"   -> k \in {"StringKind", "BytesKind"}
    [] x.t = "ArrayVal" -> k = "ArrayKind"
    [] x.t = "MapVal"   -> k \in {"MapKind", "ObjectKind"}
    [] OTHER            -> FALSE

----------------------------------------------------------------------------
(* Arguments of Format, Pattern, Minimum/Maximum, MinLength/MaxLength,     *)
(* Required and Meta.                                                      *)

\* the formats listed as supported in the documentation of Format
SupportedFormats == {"date", "date-time", "uuid", "email", "hostname", "ipv4",
                     "ipv6", "ip", "uri", "mac", "cidr", "regexp", "json", "rfc1123"}

\* a.IsSupportedValidationFormat(f)
IsSupportedValidationFormat(f) == f \in SupportedFormats

FormatInputs == {"email", "uuid", "bogus"}

\* the patterns  a  [a]  [a  []
PatternInputs == { <<"a">>, <<"[", "a", "]">>, <<"[", "a">>, <<"[", "]">> }

\* regexp.Compile over the characters a [ ]: "[" opens a character class, whose first
\* member is literal even when it is "]", and which a later "]" closes;
\* "]" outside a class is a literal.  Compilation fails on an unclosed class.
RECURSIVE ScanPattern(_, _, _)
ScanPattern(p, i, st) ==
  IF i > Len(p) THEN st = "out"
  ELSE IF st = "out" THEN ScanPattern(p, i + 1, IF p[i] = "[" THEN "first" ELSE "out")
  ELSE IF st = "first" THEN ScanPattern(p, i + 1, "in")
  ELSE ScanPattern(p, i + 1, IF p[i] = "]" THEN "out" ELSE "in")

\* err == nil of regexp.Compile(p)
Compiles(p) == ScanPattern(p, 1, "out")

\* Go types the numeric case of Minimum / Maximum lists
ConvertibleTypes == {"float32", "float64", "int", "int8", "int16", "int32", "int64",
                     "uint8", "uint16", "uint32", "uint64"}

\* every numeric Go type
NumericTypes == ConvertibleTypes \cup {"uint"}

\* the strings  42  7  4x  and the empty string
NumStrings == { <<"4", "2">>, <<"7">>, <<"4", "x">>, <<>> }

\* values handed to Minimum / Maximum: a number of some Go type, a string,
\* or a value that is neither (a bool)
NumInputs ==
  {[t |-> ty, n |-> 42, s |-> <<>>] : ty \in NumericTypes}
    \cup {[t |-> "string", n |-> 0, s |-> str] : str \in NumStrings}
    \cup {[t |-> "bool", n |-> 1, s |-> <<>>]}

NoNum == [t |-> "none", n |-> 0, s |-> <<>>]

DigitValue(c) == IF c = "4" THEN 4 ELSE IF c = "2" THEN 2 ELSE IF c = "7" THEN 7 ELSE -1

\* err == nil of strconv.ParseFloat(v, 64), for strings over 4 2 7 x:
\* a non-empty string of decimal digits
ParsesAsFloat(s) == Len(s) > 0 /\ \A i \in 1..Len(s) : DigitValue(s[i]) >= 0

\* the float64 strconv.ParseFloat returns for a string of decimal digits
\* (float64 values are modelled by the integer they equal)
RECURSIVE ParseFloat(_)
ParseFloat(s) ==
  IF s = <<>> THEN 0
  ELSE 10 * ParseFloat(SubSeq(s, 1, Len(s) - 1)) + DigitValue(s[Len(s)])

\* reflect.ValueOf(v).Convert(float64).Float(): exact for the integers and
\* float32 values of the model, which all lie within 2^53
ConvertToFloat64(x) == x.n

LengthInputs == {3, 254}

NameInputs == { <<>>, <<"a">>, <<"b", "a">> }

MetaKeys == {"k1", "k2"}

MetaValueInputs == { <<>>, <<"x">>, <<"y", "x">> }

----------------------------------------------------------------------------
(* State *)

VARIABLES
  current,     \* eval.Current(): the node whose declaration block is evaluated
  attrType,    \* attrType[a]: the Type of attribute a (NilType when nil)
  validation,  \* validation[a]: <<>> when a.Validation is nil, else <<record>>
  meta,        \* meta[n]: <<>> when n.Meta is nil, else <<map>>
  reported,    \* the errors the last call queued on the evaluation context, in order
  nerrors,     \* how many errors the evaluation context holds
  ncalls,      \* DSL calls evaluated so far
  call,        \* the last DSL call and its arguments
  pre,         \* validation and meta as they were before the last call
  metaLog,     \* history: holder, key and values of every Meta call that found a holder
  lastOk       \* history: per constraint, the argument of the latest call on the
               \* plain attribute that reported no error (<<>> when there was none)

vars == <<current, attrType, validation, meta, reported, nerrors, ncalls, call, pre, metaLog, lastOk>>

\* &expr.ValidationExpr{}: every field at its zero value.  Values, Minimum,
\* Maximum, MinLength and MaxLength are <<>> when nil and <<x>> when set.
ZeroValidation ==
  [Values |-> <<>>, Format |-> "", Pattern |-> <<>>, Minimum |-> <<>>,
   Maximum |-> <<>>, MinLength |-> <<>>, MaxLength |-> <<>>, Required |-> <<>>]

\* a fresh Validation whatever the attribute holds
EnsureValidation_fresh(v) == ZeroValidation

\* if a.Validation == nil { a.Validation = &expr.ValidationExpr{} }
EnsureValidation(v) == IF v = <<>> THEN ZeroValidation ELSE v[1]

\* an error queued on the evaluation context
Err(kind, what, actual, index, val) ==
  [kind |-> kind, validation |-> what, actual |-> actual, index |-> index, val |-> val]

\* eval.ReportError, once per error of errs: the errors join those queued
Report(errs) ==
  /\ reported' = errs
  /\ nerrors' = nerrors + Len(errs)

\* eval.IncompatibleDSL()
IncompatibleDSL == Err("IncompatibleDSL", "", "", -1, NoVal)

\* incompatibleAttributeType(validation, actual, expected)
incompatibleAttributeType(what, actual) ==
  Err("incompatibleAttributeType", what, actual, -1, NoVal)

\* a DSL call: the function called and its argument
Call(op, arg) == [op |-> op, arg |-> arg]

NoCall == Call("none", <<>>)

Snapshot == [validation |-> validation, meta |-> meta]

Init ==
  /\ current \in Targets
  /\ attrType \in Designs(current)
  /\ validation = [a \in Attrs |-> <<>>]
  /\ meta = [n \in MetaOwners |-> <<>>]
  /\ reported = <<>>
  /\ nerrors = 0
  /\ ncalls = 0
  /\ call = NoCall
  /\ pre = [validation |-> validation, meta |-> meta]
  /\ metaLog = <<>>
  /\ lastOk = [Enum |-> <<>>, Format |-> <<>>, Pattern |-> <<>>, Minimum |-> <<>>,
               Maximum |-> <<>>, MinLength |-> <<>>, MaxLength |-> <<>>]

\* bookkeeping shared by every DSL call (evaluated once the call's effect on
\* errors is known)
Called(c) ==
  /\ ncalls' = ncalls + 1
  /\ call' = c
  /\ pre' = Snapshot
  /\ lastOk' = IF c.op \in DOMAIN lastOk /\ Variant(current) = "AttributeExpr"
                    /\ reported' = <<>>
                 THEN [lastOk EXCEPT ![c.op] = <<c.arg>>]
                 ELSE lastOk
  /\ UNCHANGED <<current, attrType>>

----------------------------------------------------------------------------
(* dsl/validation.go *)

\* the errors of Enum's first loop, in index order (indices count from 0)
RECURSIVE EnumErrors(_, _, _)
EnumErrors(k, vals, i) ==
  IF i > Len(vals) THEN <<>>
  ELSE (IF k # NilType /\ ~IsCompatible(k, vals[i])
          THEN <<Err("incompatibleValue", "enum", TypeName(k), i - 1, vals[i])>>
          ELSE <<>>) \o EnumErrors(k, vals, i + 1)

\* ok, were the values checked against a nil type as well
EnumOk_checkingNilType(k, vals) ==
  \A i \in 1..Len(vals) : IsCompatible(k, vals[i])

\* ok, were it overwritten by the check of each value
EnumOk_lastValueOnly(k, vals) ==
  vals = <<>> \/ ~(k # NilType /\ ~IsCompatible(k, vals[Len(vals)]))

\* Enum's flag ok after the first loop
EnumOk(k, vals) ==
  \A i \in 1..Len(vals) : ~(k # NilType /\ ~IsCompatible(k, vals[i]))

\* the slice Enum's second loop builds
EnumStored(vals) ==
  [i \in 1..Len(vals) |->
     CASE vals[i].t = "MapVal"   -> ToMap(vals[i])
       [] vals[i].t = "ArrayVal" -> ToSlice(vals[i])
       [] OTHER                  -> vals[i]]

Enum(vals) ==
  /\ ncalls < MaxCalls
  /\ IF Variant(current) = "AttributeExpr"
       THEN LET a == current
                k == attrType[a]
            IN /\ Report(EnumErrors(k, vals, 1))
               /\ validation' =
                    IF EnumOk(k, vals)
                      THEN [validation EXCEPT ![a] =
                              <<[EnsureValidation(@) EXCEPT !.Values = <<EnumStored(vals)>>]>>]
                      ELSE validation
       ELSE Report(<<>>) /\ UNCHANGED validation
  /\ UNCHANGED <<meta, metaLog>>
  /\ Called(Call("Enum", vals))

\* the errors Format reports, in order
FormatErrors(k, f) ==
  (IF ~IsSupportedValidationFormat(f)
     THEN <<Err("invalidFormat", "format", "", -1, NoVal)>> ELSE <<>>)
  \o (IF k # NilType /\ k # "StringKind"
        THEN <<incompatibleAttributeType("format", TypeName(k))>> ELSE <<>>)

\* whether Format reaches the branch that stores the format
FormatStores(k, f) == ~(k # NilType /\ k # "StringKind")

Format(f) ==
  /\ ncalls < MaxCalls
  /\ IF Variant(current) = "AttributeExpr"
       THEN LET a == current
                k == attrType[a]
            IN /\ Report(FormatErrors(k, f))
               /\ validation' =
                    IF FormatStores(k, f)
                      THEN [validation EXCEPT ![a] =
                              <<[EnsureValidation(@) EXCEPT !.Format = f]>>]
                      ELSE validation
       ELSE Report(<<>>) /\ UNCHANGED validation
  /\ UNCHANGED <<meta, metaLog>>
  /\ Called(Call("Format", f))

Pattern(p) ==
  /\ ncalls < MaxCalls
  /\ IF Variant(current) = "AttributeExpr"
       THEN LET a == current
                k == attrType[a]
            IN IF k # NilType /\ k # "StringKind"
                 THEN /\ Report(<<incompatibleAttributeType("pattern", TypeName(k))>>)
                      /\ UNCHANGED validation
                 ELSE IF ~Compiles(p)
                        THEN /\ Report(<<Err("invalidPattern", "pattern", "", -1, NoVal)>>)
                             /\ UNCHANGED validation
                        ELSE /\ validation' = [validation EXCEPT ![a] =
                                                 <<[EnsureValidation(@) EXCEPT !.Pattern = p]>>]
                             /\ Report(<<>>)
       ELSE Report(<<>>) /\ UNCHANGED validation
  /\ UNCHANGED <<meta, metaLog>>
  /\ Called(Call("Pattern", p))

\* the kinds Minimum and Maximum let through
NumberKinds == {"IntKind", "UIntKind", "Int32Kind", "UInt32Kind", "Int64Kind",
                "UInt64Kind", "Float32Kind", "Float64Kind"}

\* the type switch of Minimum and Maximum: <<TRUE, f>> when a float64 f was
\* obtained, <<FALSE, 0>> when "invalid number value" is reported
NumberOf(x) ==
  IF x.t \in ConvertibleTypes THEN <<TRUE, ConvertToFloat64(x)>>
  ELSE IF x.t = "string"
         THEN (IF ParsesAsFloat(x.s) THEN <<TRUE, ParseFloat(x.s)>> ELSE <<FALSE, 0>>)
         ELSE <<FALSE, 0>>

Minimum(val) ==
  /\ ncalls < MaxCalls
  /\ IF Variant(current) = "AttributeExpr"
       THEN LET a == current
                k == attrType[a]
                r == NumberOf(val)
            IN IF k # NilType /\ k \notin NumberKinds
                 THEN /\ Report(<<incompatibleAttributeType("minimum", TypeName(k))>>)
                      /\ UNCHANGED validation
                 ELSE IF ~r[1]
                        THEN /\ Report(<<Err("invalidNumber", "minimum", "", -1, NoVal)>>)
                             /\ UNCHANGED validation
                        ELSE /\ validation' = [validation EXCEPT ![a] =
                                                 <<[EnsureValidation(@) EXCEPT !.Minimum = <<r[2]>>]>>]
                             /\ Report(<<>>)
       ELSE Report(<<>>) /\ UNCHANGED validation
  /\ UNCHANGED <<meta, metaLog>>
  /\ Called(Call("Minimum", val))

Maximum(val) ==
  /\ ncalls < MaxCalls
  /\ IF Variant(current) = "AttributeExpr"
       THEN LET a == current
                k == attrType[a]
                r == NumberOf(val)
            IN IF k # NilType /\ k \notin NumberKinds
                 THEN /\ Report(<<incompatibleAttributeType("maximum", TypeName(k))>>)
                      /\ UNCHANGED validation
                 ELSE IF ~r[1]
                        THEN /\ Report(<<Err("invalidNumber", "maximum", "", -1, NoVal)>>)
                             /\ UNCHANGED validation
                        ELSE /\ validation' = [validation EXCEPT ![a] =
                                                 <<[EnsureValidation(@) EXCEPT !.Maximum = <<r[2]>>]>>]
                             /\ Report(<<>>)
       ELSE Report(<<>>) /\ UNCHANGED validation
  /\ UNCHANGED <<meta, metaLog>>
  /\ Called(Call("Maximum", val))

\* LengthKinds with the integers let through as well
LengthKinds_withInt == {"BytesKind", "StringKind", "ArrayKind", "MapKind", "IntKind"}

\* the kinds MinLength and MaxLength let through
LengthKinds == {"BytesKind", "StringKind", "ArrayKind", "MapKind"}

MinLength(val) ==
  /\ ncalls < MaxCalls
  /\ IF Variant(current) = "AttributeExpr"
       THEN LET a == current
                k == attrType[a]
            IN IF k # NilType /\ k \notin LengthKinds
                 THEN /\ Report(<<incompatibleAttributeType("minimum length", TypeName(k))>>)
                      /\ UNCHANGED validation
                 ELSE /\ validation' = [validation EXCEPT ![a] =
                                          <<[EnsureValidation(@) EXCEPT !.MinLength = <<val>>]>>]
                      /\ Report(<<>>)
       ELSE Report(<<>>) /\ UNCHANGED validation
  /\ UNCHANGED <<meta, metaLog>>
  /\ Called(Call("MinLength", val))

MaxLength(val) ==
  /\ ncalls < MaxCalls
  /\ IF Variant(current) = "AttributeExpr"
       THEN LET a == current
                k == attrType[a]
            IN IF k # NilType /\ k \notin LengthKinds
                 THEN /\ Report(<<incompatibleAttributeType("maximum length", TypeName(k))>>)
                      /\ UNCHANGED validation
                 ELSE /\ validation' = [validation EXCEPT ![a] =
                                          <<[EnsureValidation(@) EXCEPT !.MaxLength = <<val>>]>>]
                      /\ Report(<<>>)
       ELSE Report(<<>>) /\ UNCHANGED validation
  /\ UNCHANGED <<meta, metaLog>>
  /\ Called(Call("MaxLength", val))

\* expr.ValidationExpr.AddRequired: the names appended to those accumulated
AddRequired(required, names) == required \o names

\* the attribute Required works on: <<a>>, or <<>> for an unsupported target
RequiredAttribute(n) ==
  CASE Variant(n) = "AttributeExpr"  -> <<n>>
    [] Variant(n) = "ResultTypeExpr" -> <<"rtAttr">>
    [] OTHER                         -> <<>>

\* Required, were the names stored in place of those accumulated
Required_replacing(names) ==
  /\ ncalls < MaxCalls
  /\ LET at == RequiredAttribute(current)
     IN IF at = <<>>
          THEN /\ Report(<<IncompatibleDSL>>)
               /\ UNCHANGED validation
          ELSE LET a == at[1]
                   k == attrType[a]
               IN IF k # NilType /\ k # "ObjectKind"
                    THEN /\ Report(<<incompatibleAttributeType("required", TypeName(k))>>)
                         /\ UNCHANGED validation
                    ELSE /\ validation' = [validation EXCEPT ![a] =
                                             <<[EnsureValidation(@) EXCEPT !.Required = names]>>]
                         /\ Report(<<>>)
  /\ UNCHANGED <<meta, metaLog>>
  /\ Called(Call("Required", names))

Required(names) ==
  /\ ncalls < MaxCalls
  /\ LET at == RequiredAttribute(current)
     IN IF at = <<>>
          THEN /\ Report(<<IncompatibleDSL>>)
               /\ UNCHANGED validation
          ELSE LET a == at[1]
                   k == attrType[a]
               IN IF k # NilType /\ k # "ObjectKind"
                    THEN /\ Report(<<incompatibleAttributeType("required", TypeName(k))>>)
                         /\ UNCHANGED validation
                    ELSE /\ validation' = [validation EXCEPT ![a] =
                                             <<[EnsureValidation(@) EXCEPT
                                                  !.Required = AddRequired(@, names)]>>]
                         /\ Report(<<>>)
  /\ UNCHANGED <<meta, metaLog>>
  /\ Called(Call("Required", names))

----------------------------------------------------------------------------
(* dsl: Meta *)

\* a map[string][]string is a function from its keys; make(map...) is empty
EmptyMap == [k \in {} |-> <<>>]

\* meta[name], which is nil (empty) for a key the map lacks
Lookup(m, name) == IF name \in DOMAIN m THEN m[name] ELSE <<>>

\* appendMeta storing the values in place of those held
appendMeta_replacing(m, name, value) ==
  LET mm == IF m = <<>> THEN EmptyMap ELSE m[1]
  IN <<[k \in DOMAIN mm \cup {name} |-> IF k = name THEN value ELSE mm[k]]>>

\* the closure appendMeta of Meta; meta is <<>> when the map is nil
appendMeta(m, name, value) ==
  LET mm == IF m = <<>> THEN EmptyMap ELSE m[1]
  IN <<[k \in DOMAIN mm \cup {name} |->
          IF k = name THEN Lookup(mm, name) \o value ELSE mm[k]]>>

\* the holder of the Meta the type switch of Meta updates: <<n>>, or <<>>
MetaHolder(n) ==
  CASE Variant(n) = "CompositeExpr" -> <<"compAttr">>
    [] Variant(n) \in {"AttributeExpr", "ResultTypeExpr", "MethodExpr",
                       "ServiceExpr", "APIExpr"} -> <<n>>
    [] OTHER -> <<>>

Meta(name, value) ==
  /\ ncalls < MaxCalls
  /\ LET h == MetaHolder(current)
     IN IF h = <<>>
          THEN /\ Report(<<IncompatibleDSL>>)
               /\ UNCHANGED <<meta, metaLog>>
          ELSE /\ meta' = [meta EXCEPT ![h[1]] = appendMeta(@, name, value)]
               /\ metaLog' = Append(metaLog, [holder |-> h[1], key |-> name, value |-> value])
               /\ Report(<<>>)
  /\ UNCHANGED validation
  /\ Called(Call("Meta", [key |-> name, value |-> value]))

----------------------------------------------------------------------------

Next ==
  \/ \E vals \in EnumInputs : Enum(vals)
  \/ \E f \in FormatInputs : Format(f)
  \/ \E p \in PatternInputs : Pattern(p)
  \/ \E val \in NumInputs : Minimum(val)
  \/ \E val \in NumInputs : Maximum(val)
  \/ \E val \in LengthInputs : MinLength(val)
  \/ \E val \in LengthInputs : MaxLength(val)
  \/ \E names \in NameInputs : Required(names)
  \/ \E name \in MetaKeys, value \in MetaValueInputs : Meta(name, value)

Spec == Init /\ [][Next]_vars

----------------------------------------------------------------------------
(* Vocabulary of the properties *)

\* the constraint functions whose only supported target is a plain attribute
AttributeOnlyOps == {"Enum", "Format", "Pattern", "Minimum", "Maximum",
                     "MinLength", "MaxLength"}

ConstraintOps == AttributeOnlyOps \cup {"Required"}

\* the attribute the last call configures: <<a>>, or <<>> when the current
\* node is not a target the called function supports
CallAttribute ==
  IF call.op = "Required" THEN RequiredAttribute(current)
  ELSE IF call.op \in AttributeOnlyOps /\ Variant(current) = "AttributeExpr"
         THEN <<current>>
         ELSE <<>>

\* the field of a Validation that each function writes
FieldOf(op) == IF op = "Enum" THEN "Values" ELSE op

\* field f of a possibly nil Validation (the zero value when it is nil)
Field(v, f) == EnsureValidation(v)[f]

\* the errors of one kind among those the last call reported
ReportedOfKind(kind) == {i \in 1..Len(reported) : reported[i].kind = kind}

\* the kinds each constraint is documented to apply to
IntegerFamily == {"IntKind", "Int32Kind", "Int64Kind", "UIntKind", "UInt32Kind", "UInt64Kind"}
FloatFamily == {"Float32Kind", "Float64Kind"}
AllowedKinds(op) ==
  CASE op \in {"Format", "Pattern"}       -> {"StringKind"}
    [] op \in {"Minimum", "Maximum"}      -> IntegerFamily \cup FloatFamily
    [] op \in {"MinLength", "MaxLength"}  -> {"BytesKind", "StringKind", "ArrayKind", "MapKind"}
    [] op = "Required"                    -> {"ObjectKind"}
    [] OTHER                              -> Kinds

----------------------------------------------------------------------------
(* C1: on every holder of metadata and under every key, the stored sequence *)
(* is the concatenation, in call order, of the value lists of all the Meta  *)
(* calls made with that key on that holder (nothing reordered, dropped or   *)
(* deduplicated); a key is present exactly when some Meta call named it,    *)
(* even with no values.                                                     *)

RECURSIVE Concatenation(_, _, _)
Concatenation(log, h, k) ==
  IF log = <<>> THEN <<>>
  ELSE (IF Head(log).holder = h /\ Head(log).key = k THEN Head(log).value ELSE <<>>)
         \o Concatenation(Tail(log), h, k)

Logged(h, k) == \E i \in 1..Len(metaLog) : metaLog[i].holder = h /\ metaLog[i].key = k

\* C1: under every key of every holder, the stored sequence is the concatenation,
\* in call order, of the value lists of the Meta calls made with that key there
C1_MetaConcatenation ==
  \A h \in MetaOwners, k \in MetaKeys :
    IF Logged(h, k)
      THEN /\ meta[h] # <<>>
           /\ k \in DOMAIN meta[h][1]
           /\ meta[h][1][k] = Concatenation(metaLog, h, k)
      ELSE meta[h] = <<>> \/ k \notin DOMAIN meta[h][1]

\* Meta("k1", "x") then Meta("k1", "y", "x") on a composite: k1 holds x, y, x
C1_Witness ==
  /\ current = "composite"
  /\ Len(metaLog) = 2
  /\ metaLog[1] = [holder |-> "compAttr", key |-> "k1", value |-> <<"x">>]
  /\ metaLog[2] = [holder |-> "compAttr", key |-> "k1", value |-> <<"y", "x">>]
  /\ meta["compAttr"] # <<>>
  /\ meta["compAttr"][1]["k1"] = <<"x", "y", "x">>

----------------------------------------------------------------------------
(* C2: a call that reports an error leaves every Validation and every Meta  *)
(* as it was before the call.                                               *)

\* C2: whenever the last call reported an error, no Validation and no Meta changed
C2_ErrorLeavesRecords ==
  reported # <<>> => validation = pre.validation /\ meta = pre.meta

----------------------------------------------------------------------------
(* C3: a constraint function called while the current node is not a target  *)
(* it supports reports an incompatible-target error and modifies no node.   *)

\* C3: a constraint call on an unsupported target reported an incompatible-target
\* error and changed nothing
C3_IncompatibleTargetReported ==
  (call.op \in ConstraintOps /\ CallAttribute = <<>>)
    => /\ ReportedOfKind("IncompatibleDSL") # {}
       /\ validation = pre.validation
       /\ meta = pre.meta

----------------------------------------------------------------------------
(* C4: Format, Pattern, Minimum, Maximum, MinLength, MaxLength and Required *)
(* on an attribute whose type is known and of a kind outside the function's *)
(* allowed set leave the attribute's Validation untouched (a nil Validation *)
(* stays nil) and report exactly one incompatible-attribute-type error,     *)
(* which names the attribute's type.                                        *)

\* C4: on a known kind outside the allowed set the Validation is untouched and
\* exactly one incompatible-attribute-type error, naming the type, was reported
C4_IncompatibleKind ==
  (call.op \in ConstraintOps \ {"Enum"} /\ CallAttribute # <<>>)
    => LET a == CallAttribute[1]
           k == attrType[a]
       IN (k # NilType /\ k \notin AllowedKinds(call.op))
            => /\ validation[a] = pre.validation[a]
               /\ Cardinality(ReportedOfKind("incompatibleAttributeType")) = 1
               /\ \A i \in ReportedOfKind("incompatibleAttributeType") :
                    reported[i].actual = TypeName(k)

\* Minimum on a string attribute: one error naming "string", Validation still nil
C4_Witness ==
  /\ call.op = "Minimum"
  /\ current = "attr"
  /\ attrType["attr"] = "StringKind"
  /\ validation["attr"] = <<>>
  /\ Len(reported) = 1
  /\ reported[1].kind = "incompatibleAttributeType"
  /\ reported[1].actual = "string"

----------------------------------------------------------------------------
(* The value each function is expected to leave in its field *)

\* a value as Enum keeps it: array and map literals as plain slices and maps
PlainForm(x) ==
  CASE x.t = "ArrayVal" -> [t |-> "slice", v |-> x.v]
    [] x.t = "MapVal"   -> [t |-> "map", v |-> x.v]
    [] OTHER            -> x

\* the number a numeric argument denotes
NumericValue(x) == IF x.t = "string" THEN ParseFloat(x.s) ELSE x.n

\* arguments Minimum and Maximum take for a number: a value of a Go numeric
\* type they convert, or a string of decimal digits
AcceptedNumber(x) ==
  x.t \in ConvertibleTypes \/ (x.t = "string" /\ ParsesAsFloat(x.s))

\* an argument that passes the function's own validation of its value
ValidArgument(op, arg) ==
  CASE op = "Format"                  -> arg \in SupportedFormats
    [] op = "Pattern"                 -> Compiles(arg)
    [] op \in {"Minimum", "Maximum"}  -> AcceptedNumber(arg)
    [] OTHER                          -> TRUE

\* the content of the field of op after a call of op with arg took effect;
\* old is the content before the call
Expected(op, arg, old) ==
  CASE op = "Enum"                        -> <<[i \in 1..Len(arg) |-> PlainForm(arg[i])]>>
    [] op \in {"Format", "Pattern"}       -> arg
    [] op \in {"Minimum", "Maximum"}      -> <<NumericValue(arg)>>
    [] op \in {"MinLength", "MaxLength"}  -> <<arg>>
    [] OTHER                              -> old \o arg

----------------------------------------------------------------------------
(* C5: a constraint function called with a valid argument on an attribute   *)
(* whose type is nil reports no type-compatibility error, leaves the        *)
(* attribute with a Validation, and stores the argument in its field; Enum  *)
(* stores every value it was given, whatever the values' types.             *)

\* C5: on an attribute of nil type a valid argument is stored, the Validation
\* is created, and no type-compatibility error is reported
C5_NilTypeStores ==
  (call.op \in ConstraintOps /\ CallAttribute # <<>>)
    => LET a == CallAttribute[1]
           f == FieldOf(call.op)
       IN (attrType[a] = NilType /\ ValidArgument(call.op, call.arg))
            => /\ ReportedOfKind("incompatibleAttributeType") = {}
               /\ ReportedOfKind("incompatibleValue") = {}
               /\ validation[a] # <<>>
               /\ validation[a][1][f] = Expected(call.op, call.arg, Field(pre.validation[a], f))

\* Enum(1, "two", 3) on an attribute of nil type creates the Validation and
\* stores the three values
C5_Witness ==
  /\ call = Call("Enum", <<IntVal(1), StringVal, IntVal(3)>>)
  /\ current = "attr"
  /\ attrType["attr"] = NilType
  /\ pre.validation["attr"] = <<>>
  /\ validation["attr"] # <<>>
  /\ validation["attr"][1].Values = << <<IntVal(1), StringVal, IntVal(3)>> >>
  /\ reported = <<>>

----------------------------------------------------------------------------
(* C6: Minimum and Maximum on an attribute of nil type or of an integer or  *)
(* floating kind accept a value of any Go numeric type (uint included) and  *)
(* a decimal string, report no error and store the float64 equal to the     *)
(* number; a string that is not a number reports "invalid number value" and *)
(* leaves the Validation as it was.                                         *)

\* C6: Minimum and Maximum store the float64 of any numeric value or decimal
\* string without error, and reject a non-numeric string without storing
C6_NumbersNormalised ==
  (call.op \in {"Minimum", "Maximum"} /\ CallAttribute # <<>>)
    => LET a == CallAttribute[1]
           k == attrType[a]
           x == call.arg
       IN (k = NilType \/ k \in IntegerFamily \cup FloatFamily)
            => IF x.t \in NumericTypes \/ (x.t = "string" /\ ParsesAsFloat(x.s))
                 THEN /\ reported = <<>>
                      /\ Field(validation[a], call.op) = <<NumericValue(x)>>
                 ELSE x.t = "string"
                        => /\ Len(reported) = 1
                           /\ reported[1].kind = "invalidNumber"
                           /\ validation[a] = pre.validation[a]

----------------------------------------------------------------------------
(* C7: Enum on an attribute of known type checks every value and reports    *)
(* one error, naming the value and its index, per value incompatible with   *)
(* the type; with an incompatible value the Validation is left as it was,   *)
(* and without one the stored values are the supplied list, in order.       *)

\* the indices (from 1) of the values of vals incompatible with kind k
Incompatible(k, vals) == {i \in 1..Len(vals) : ~IsCompatible(k, vals[i])}

\* one error per incompatible value, with its value and index, in index order
OneErrorPerIncompatible(k, vals) ==
  /\ Len(reported) = Cardinality(Incompatible(k, vals))
  /\ \A j \in 1..Len(reported) :
       /\ reported[j].kind = "incompatibleValue"
       /\ reported[j].index + 1 \in Incompatible(k, vals)
       /\ reported[j].val = vals[reported[j].index + 1]
       /\ \A j2 \in 1..Len(reported) : j < j2 => reported[j].index < reported[j2].index

\* C7 as claimed: one error per incompatible value; nothing stored when there is
\* one; otherwise the stored values are exactly the supplied list
C7_EnumStoresSuppliedList ==
  (call.op = "Enum" /\ CallAttribute # <<>>)
    => LET a == CallAttribute[1]
           k == attrType[a]
       IN k # NilType
            => /\ OneErrorPerIncompatible(k, call.arg)
               /\ IF Incompatible(k, call.arg) # {}
                    THEN validation[a] = pre.validation[a]
                    ELSE Field(validation[a], "Values") = <<call.arg>>

\* C7 as amended: one error per incompatible value; nothing stored when there is
\* one; otherwise the stored values are the supplied list in order, each array
\* or map literal in its plain slice or map form
C7_EnumAllOrNothing ==
  (call.op = "Enum" /\ CallAttribute # <<>>)
    => LET a == CallAttribute[1]
           k == attrType[a]
       IN k # NilType
            => /\ OneErrorPerIncompatible(k, call.arg)
               /\ IF Incompatible(k, call.arg) # {}
                    THEN validation[a] = pre.validation[a]
                    ELSE Field(validation[a], "Values") = Expected("Enum", call.arg, <<>>)

\* Enum(1, 3) then Enum(1, "two", 3) on an int attribute: one error, for
\* index 1, and the stored values are still 1, 3
C7_Witness ==
  /\ call = Call("Enum", <<IntVal(1), StringVal, IntVal(3)>>)
  /\ current = "attr"
  /\ attrType["attr"] = "IntKind"
  /\ Len(reported) = 1
  /\ reported[1].index = 1
  /\ reported[1].val = StringVal
  /\ Field(validation["attr"], "Values") = << <<IntVal(1), IntVal(3)>> >>

----------------------------------------------------------------------------
(* C8: Required on an attribute of object kind or nil type (the plain       *)
(* attribute, or the attribute of a result type) appends its names to those *)
(* accumulated, removing none and deduplicating nothing, so that            *)
(* Required("a") then Required("b", "a") leaves a, b, a; on an attribute of *)
(* a known kind other than object it reports an incompatible-type error and *)
(* leaves the accumulated names as they were.                               *)

----------------------------------------------------------------------------
(* C9: on the plain attribute, the field of each of Enum, Format, Pattern,  *)
(* Minimum, Maximum, MinLength and MaxLength holds the argument of the      *)
(* latest call of that function that reported no error, and is unset when   *)
(* there was no such call.                                                  *)

\* C9: each field holds the argument of the latest call of its function that
\* reported no error, and is unset when there was none
C9_LatestSuccessfulCallWins ==
  Variant(current) = "AttributeExpr"
    => \A op \in AttributeOnlyOps :
         Field(validation[current], FieldOf(op))
           = IF lastOk[op] = <<>>
               THEN ZeroValidation[FieldOf(op)]
               ELSE Expected(op, lastOk[op][1], <<>>)

----------------------------------------------------------------------------
(* C10: a constraint call changes no Meta, no Validation but the one of the *)
(* attribute it configures, and in that one no field but its own; a Meta    *)
(* call changes no Validation, no Meta but the one of its holder, and in    *)
(* that one no key but its own.  So a Validation once created stays, a      *)
(* field set stays set through the calls of the other functions, and        *)
(* Format("email"), MinLength(3), MaxLength(254) on a string attribute      *)
(* leave all three fields set with no error reported.                       *)

Fields == DOMAIN ZeroValidation

ConstraintFrame ==
  call.op \in ConstraintOps
    => /\ meta = pre.meta
       /\ \A a \in Attrs :
            IF CallAttribute = <<a>>
              THEN \A f \in Fields \ {FieldOf(call.op)} :
                     Field(validation[a], f) = Field(pre.validation[a], f)
              ELSE validation[a] = pre.validation[a]

MetaFrame ==
  call.op = "Meta"
    => /\ validation = pre.validation
       /\ \A h \in MetaOwners :
            IF MetaHolder(current) = <<h>>
              THEN \A k \in MetaKeys \ {call.arg.key} :
                     /\ (meta[h] # <<>> /\ k \in DOMAIN meta[h][1])
                          <=> (pre.meta[h] # <<>> /\ k \in DOMAIN pre.meta[h][1])
                     /\ (pre.meta[h] # <<>> /\ k \in DOMAIN pre.meta[h][1])
                          => meta[h][1][k] = pre.meta[h][1][k]
              ELSE meta[h] = pre.meta[h]

NothingUnset ==
  /\ \A a \in Attrs : pre.validation[a] # <<>> => validation[a] # <<>>
  /\ \A h \in MetaOwners : pre.meta[h] # <<>> => meta[h] # <<>>
  /\ \A a \in Attrs, f \in Fields :
       (f # FieldOf(call.op) /\ Field(pre.validation[a], f) # ZeroValidation[f])
         => Field(validation[a], f) # ZeroValidation[f]

\* the three calls of the end-to-end case were made, in some order
EndToEndCalls ==
  /\ current = "attr"
  /\ attrType["attr"] = "StringKind"
  /\ ncalls = 3
  /\ lastOk["Format"] = <<"email">>
  /\ lastOk["MinLength"] = <<3>>
  /\ lastOk["MaxLength"] = <<254>>

EndToEnd ==
  EndToEndCalls
    => /\ nerrors = 0
       /\ validation["attr"] # <<>>
       /\ validation["attr"][1].Format = "email"
       /\ validation["attr"][1].MinLength = <<3>>
       /\ validation["attr"][1].MaxLength = <<254>>

\* C10: every call changes at most its own field (or key) of the current target,
\* nothing set is unset by another function, and the end-to-end case ends with
\* its three fields set and no error
C10_OwnFieldOnly == ConstraintFrame /\ MetaFrame /\ NothingUnset /\ EndToEnd

\* Format("email"), MinLength(3), MaxLength(254), in that order: all three set
C10_Witness ==
  /\ EndToEndCalls
  /\ call = Call("MaxLength", 254)
  /\ Field(pre.validation["attr"], "Format") = "email"
  /\ Field(pre.validation["attr"], "MinLength") = <<3>>
  /\ Field(pre.validation["attr"], "MaxLength") = <<>>
  /\ validation["attr"][1].Format = "email"
  /\ validation["attr"][1].MinLength = <<3>>
  /\ validation["attr"][1].MaxLength = <<254>>
  /\ nerrors = 0

====
